---- MODULE Spec2Model ----
(***************************************************************************)
(* A model of src/src/ol/xml.js: the namespace/local-name dispatch engine  *)
(* (parseNode, pushParseAndPop, serialize, pushSerializeAndPop), the read  *)
(* combinators (makeArrayExtender, makeArrayPusher, makeReplacer,          *)
(* makeObjectPropertyPusher, makeObjectPropertySetter) and the write       *)
(* helpers (makeChildAppender, makeArraySerializer, makeSimpleNodeFactory, *)
(* makeSequence, makeStructureNS).                                         *)
(*                                                                         *)
(* JavaScript objects live in a heap and are named by references, so that  *)
(* mutation in place and replacement of a stack slot differ.  The          *)
(* recursion of the handlers is an explicit control stack of activation    *)
(* frames.  An uncaught TypeError unwinds every activation: status becomes *)
(* "thrown" and the object stack is left as it was at the throw.           *)
(***************************************************************************)
EXTENDS Integers, Sequences, FiniteSets, TLC

VARIABLES
  nodes,        \* the DOM: node id -> node record (input tree, created nodes)
  heap,         \* reference -> JavaScript object (arrays and records)
  objectStack,  \* the objectStack array threaded through every call
  cstack,       \* control stack of activation frames
  status,       \* "running", "done" or "thrown"
  ret,          \* the value returned by the last finished pushXAndPop
  cfg,          \* the arguments of the top-level call (never changes)
  closure,      \* the variables each makeArraySerializer closure captured
  call          \* the number of the top-level call that is running

vars == <<nodes, heap, objectStack, cstack, status, ret, cfg, closure, call>>

----------------------------------------------------------------------------
(* Bounds of the model. *)

\* most element/text children of the document's root node
MaxChildren == 3
\* longest values array handed to a top-level pushSerializeAndPop
MaxValues == 3
\* longest list of ordered keys
MaxKeys == 3
\* deepest level at which a nested element still has children of its own
MaxDepth == 2

----------------------------------------------------------------------------
(* Values.  Every JavaScript value is a record [t, v]. *)

Undef == [t |-> "undef", v |-> 0]
Absent == [t |-> "absent", v |-> 0]
Num(i) == [t |-> "num", v |-> i]
Ref(r) == [t |-> "ref", v |-> r]
NodeVal(n) == [t |-> "node", v |-> n]

\* property names used by records (the local names, plus "node")
Keys == {"a", "b", "c", "node"}

NoProps == [k \in Keys |-> Absent]

\* new Array / [] and new Object / {}
NewArray(elems) == [isArray |-> TRUE, elems |-> elems, props |-> NoProps]
NewObject(props) == [isArray |-> FALSE, elems |-> <<>>, props |-> props]

Top(st) == st[Len(st)]
Front(st) == SubSeq(st, 1, Len(st) - 1)

\* the outcome of a handler: the stack, the heap, and whether it returned
\* normally (ok) or threw a TypeError
Result(st, hp, ok) == [st |-> st, hp |-> hp, ok |-> ok]

IsObject(v, hp) == v.t = "ref" /\ v.v \in 1..Len(hp)

----------------------------------------------------------------------------
(* The tree provider: documents and the DOM primitives the engine uses. *)

Label(type, ns, name, hasVal) ==
  [nodeType |-> type, namespaceURI |-> ns, localName |-> name, hasVal |-> hasVal]

LRoot == Label("element", "ns1", "root", FALSE)
LA == Label("element", "ns1", "a", TRUE)
LA0 == Label("element", "ns1", "a", FALSE)
LB == Label("element", "ns1", "b", TRUE)
LC == Label("element", "ns1", "c", TRUE)
LX == Label("element", "ns2", "a", TRUE)
LT == Label("text", "", "", TRUE)

TopLabels == {LA, LA0, LB, LC, LX, LT}

\* children of an element with label lab at nesting level d (the root's
\* children are at level 1)
KidLabels(lab, d) ==
  IF lab.localName = "b" /\ d <= MaxDepth
    THEN IF d = 1 THEN <<LT, LA, LB>> ELSE <<LC, LB, LA>>
    ELSE IF lab.localName = "c" /\ d = 1 THEN <<LA>> ELSE <<>>

RECURSIVE Tree(_, _)
Tree(lab, d) ==
  LET ks == KidLabels(lab, d)
  IN [lab |-> lab, kids |-> [i \in 1..Len(ks) |-> Tree(ks[i], d + 1)]]

RECURSIVE AddTree(_, _, _)
RECURSIVE AddKids(_, _, _)
\* the node table with tree t added as the last child of parent
AddTree(tbl, parent, t) ==
  LET id == Len(tbl) + 1
      rec == [nodeType |-> t.lab.nodeType,
              namespaceURI |-> t.lab.namespaceURI,
              localName |-> t.lab.localName,
              val |-> IF t.lab.hasVal THEN Num(id) ELSE Undef,
              parentNode |-> parent,
              childNodes |-> <<>>]
      t1 == Append(tbl, rec)
      t2 == IF parent = 0 THEN t1
            ELSE [t1 EXCEPT ![parent].childNodes = Append(@, id)]
  IN AddKids(t2, id, t.kids)
AddKids(tbl, parent, kids) ==
  IF kids = <<>> THEN tbl
  ELSE AddKids(AddTree(tbl, parent, Head(kids)), parent, Tail(kids))

SeqsUpTo(S, n) == UNION {[1..k -> S] : k \in 0..n}

\* a document: a root element whose children carry the labels cs
Doc(cs) ==
  AddTree(<<>>, 0,
          [lab |-> LRoot, kids |-> [i \in 1..Len(cs) |-> Tree(cs[i], 1)]])

Docs == {Doc(cs) : cs \in SeqsUpTo(TopLabels, MaxChildren)}

IsElement(nds, c) == nds[c].nodeType = "element"

\* node.firstElementChild (0 stands for null)
firstElementChild(nds, n) ==
  LET es == SelectSeq(nds[n].childNodes, LAMBDA c : IsElement(nds, c))
  IN IF es = <<>> THEN 0 ELSE Head(es)

\* n.nextSibling: the next child of any kind
nextElementSibling_nextSibling(nds, n) ==
  LET cs == nds[nds[n].parentNode].childNodes
      idx == CHOOSE i \in 1..Len(cs) : cs[i] = n
  IN IF idx = Len(cs) THEN 0 ELSE cs[idx + 1]

\* n.nextElementSibling (0 stands for null)
nextElementSibling(nds, n) ==
  LET cs == nds[nds[n].parentNode].childNodes
      idx == CHOOSE i \in 1..Len(cs) : cs[i] = n
      es == SelectSeq(SubSeq(cs, idx + 1, Len(cs)), LAMBDA c : IsElement(nds, c))
  IN IF es = <<>> THEN 0 ELSE Head(es)

----------------------------------------------------------------------------
(* Value readers.  A value reader is client code handed to a combinator;   *)
(* the model has three: one reads the node's scalar content (undefined     *)
(* when it has none), one reads a list (undefined when the node has no     *)
(* children), one parses the node's children into a fresh accumulator with *)
(* pushParseAndPop.                                                        *)

\* readScalar(node): the node's content, or undefined
readScalar(nds, n) == nds[n].val

\* the contents of the list readList(node) returns (a new array), or <<>>
\* when it returns undefined: the node's content, then its children's
readListElems(nds, n) ==
  IF nds[n].childNodes = <<>> THEN <<>>
  ELSE <<nds[n].val>> \o
       [i \in 1..Len(nds[n].childNodes) |-> nds[nds[n].childNodes[i]].val]

----------------------------------------------------------------------------
(* The read combinators: the effect of the Parser each returns, given the  *)
(* value its value reader produced.                                        *)

\* extend(arr, data) of ./array.js: append the elements of data to arr
extend(array, value, st, hp) ==
  IF IsObject(array, hp) /\ IsObject(value, hp)
     /\ hp[array.v].isArray /\ hp[value.v].isArray
    THEN Result(st, [hp EXCEPT ![array.v].elems = @ \o hp[value.v].elems], TRUE)
    ELSE Result(st, hp, FALSE)

\* an extender that replaces the array's contents by the value's
makeArrayExtender_replace(value, st, hp) ==
  IF value # Undef
    THEN LET array == Top(st)
         IN IF IsObject(array, hp) /\ IsObject(value, hp)
               /\ hp[array.v].isArray /\ hp[value.v].isArray
              THEN Result(st, [hp EXCEPT ![array.v].elems = hp[value.v].elems],
                          TRUE)
              ELSE Result(st, hp, FALSE)
    ELSE Result(st, hp, TRUE)

makeArrayExtender(value, st, hp) ==
  IF value # Undef
    THEN LET array == Top(st) IN extend(array, value, st, hp)
    ELSE Result(st, hp, TRUE)

\* an array pusher that pushes onto the array at the bottom of the stack
makeArrayPusher_bottom(value, st, hp) ==
  IF value # Undef
    THEN LET array == st[1]
         IN IF IsObject(array, hp) /\ hp[array.v].isArray
              THEN Result(st, [hp EXCEPT ![array.v].elems = Append(@, value)], TRUE)
              ELSE Result(st, hp, FALSE)
    ELSE Result(st, hp, TRUE)

makeArrayPusher(value, st, hp) ==
  IF value # Undef
    THEN LET array == Top(st)
         IN IF IsObject(array, hp) /\ hp[array.v].isArray
              THEN Result(st, [hp EXCEPT ![array.v].elems = Append(@, value)], TRUE)
              ELSE Result(st, hp, FALSE)   \* array.push is not a function
    ELSE Result(st, hp, TRUE)

\* a replacer that pushes the value instead of overwriting the top slot
makeReplacer_push(value, st, hp) ==
  IF value # Undef
    THEN Result(Append(st, value), hp, TRUE)
    ELSE Result(st, hp, TRUE)

makeReplacer(value, st, hp) ==
  IF value # Undef
    THEN Result([st EXCEPT ![Len(st)] = value], hp, TRUE)
    ELSE Result(st, hp, TRUE)

\* a property pusher that stores a new one-element array on every call
makeObjectPropertyPusher_fresh(value, opt_property, localName, st, hp) ==
  IF value # Undef /\ IsObject(Top(st), hp)
    THEN LET property == IF opt_property # "" THEN opt_property ELSE localName
             hp1 == Append(hp, NewArray(<<value>>))
         IN Result(st,
              [hp1 EXCEPT ![Top(st).v].props[property] = Ref(Len(hp) + 1)],
              TRUE)
    ELSE Result(st, hp, value = Undef)

makeObjectPropertyPusher(value, opt_property, localName, st, hp) ==
  IF value # Undef
    THEN LET object == Top(st)
             property == IF opt_property # "" THEN opt_property ELSE localName
         IN IF ~IsObject(object, hp)
              THEN Result(st, hp, FALSE)   \* 'in' applied to a primitive
              ELSE IF hp[object.v].props[property] # Absent
                THEN LET array == hp[object.v].props[property]
                     IN IF IsObject(array, hp) /\ hp[array.v].isArray
                          THEN Result(st,
                                 [hp EXCEPT ![array.v].elems = Append(@, value)],
                                 TRUE)
                          ELSE Result(st, hp, FALSE)
                ELSE LET array == Ref(Len(hp) + 1)
                         hp1 == Append(hp, NewArray(<<value>>))
                     IN Result(st,
                          [hp1 EXCEPT ![object.v].props[property] = array],
                          TRUE)
    ELSE Result(st, hp, TRUE)

\* a property setter without the test for undefined
makeObjectPropertySetter_unguarded(value, opt_property, localName, st, hp) ==
  LET object == Top(st)
      property == IF opt_property # "" THEN opt_property ELSE localName
  IN IF ~IsObject(object, hp)
       THEN Result(st, hp, FALSE)
       ELSE Result(st, [hp EXCEPT ![object.v].props[property] = value], TRUE)

\* a property setter that keeps the value a key already has
makeObjectPropertySetter_first(value, opt_property, localName, st, hp) ==
  IF value # Undef
    THEN LET object == Top(st)
             property == IF opt_property # "" THEN opt_property ELSE localName
         IN IF ~IsObject(object, hp)
              THEN Result(st, hp, FALSE)
              ELSE IF hp[object.v].props[property] # Absent
                THEN Result(st, hp, TRUE)
                ELSE Result(st, [hp EXCEPT ![object.v].props[property] = value],
                            TRUE)
    ELSE Result(st, hp, TRUE)

makeObjectPropertySetter(value, opt_property, localName, st, hp) ==
  IF value # Undef
    THEN LET object == Top(st)
             property == IF opt_property # "" THEN opt_property ELSE localName
         IN IF ~IsObject(object, hp)
              THEN Result(st, hp, FALSE)   \* property of a primitive (strict mode)
              ELSE Result(st, [hp EXCEPT ![object.v].props[property] = value], TRUE)
    ELSE Result(st, hp, TRUE)

----------------------------------------------------------------------------
(* Parser tables.  A Parser is a combinator applied to a value reader:     *)
(* [comb, reader, property, seed]; property "" is an omitted opt_property, *)
(* seed is the accumulator a readNested reader starts from.                *)

P(comb, reader, property, seed) ==
  [comb |-> comb, reader |-> reader, property |-> property, seed |-> seed]

NoParser == P("", "", "", "")

TObj ==
  [ns1 |-> [a |-> P("makeObjectPropertyPusher", "readScalar", "", ""),
            b |-> P("makeObjectPropertyPusher", "readNested", "", "record"),
            c |-> P("makeObjectPropertyPusher", "readScalar", "a", "")]]
TArr ==
  [ns1 |-> [a |-> P("makeArrayPusher", "readScalar", "", ""),
            b |-> P("makeArrayExtender", "readNested", "", "array"),
            c |-> P("makeArrayExtender", "readList", "", "")]]
TRep ==
  [ns1 |-> [a |-> P("makeReplacer", "readScalar", "", ""),
            b |-> P("makeReplacer", "readNested", "", "record")]]
TSet ==
  [ns1 |-> [a |-> P("makeObjectPropertySetter", "readScalar", "", ""),
            b |-> P("makeObjectPropertySetter", "readNested", "", "record"),
            c |-> P("makeObjectPropertySetter", "readScalar", "a", "")]]
\* the parsers of a round trip: every element under its own name, an
\* element that may have children parsed into a record of its own
TRound ==
  [ns1 |-> [a |-> P("makeObjectPropertyPusher", "readScalar", "", ""),
            b |-> P("makeObjectPropertyPusher", "readNested", "", "record"),
            c |-> P("makeObjectPropertyPusher", "readNested", "", "record")]]

ParserTableNames == {"TObj", "TArr", "TRep", "TSet"}

parsersNSOf(name) ==
  CASE name = "TObj" -> TObj
    [] name = "TArr" -> TArr
    [] name = "TRep" -> TRep
    [] name = "TSet" -> TSet
    [] name = "TRound" -> TRound

\* a lookup by local name alone, in whichever namespace has it
parserFor_anyNamespace(parsersNS, ns, name) ==
  IF \E u \in DOMAIN parsersNS : name \in DOMAIN parsersNS[u]
    THEN parsersNS[CHOOSE u \in DOMAIN parsersNS : name \in DOMAIN parsersNS[u]][name]
    ELSE NoParser

\* parsersNS[n.namespaceURI][n.localName], NoParser when either lookup is
\* undefined
parserFor(parsersNS, ns, name) ==
  IF ns \in DOMAIN parsersNS
    THEN IF name \in DOMAIN parsersNS[ns] THEN parsersNS[ns][name] ELSE NoParser
    ELSE NoParser

\* the Parser `parser` called on node n with value `value` from its reader
applyParser(parser, value, nds, n, st, hp) ==
  CASE parser.comb = "makeArrayExtender" -> makeArrayExtender(value, st, hp)
    [] parser.comb = "makeArrayPusher" -> makeArrayPusher(value, st, hp)
    [] parser.comb = "makeReplacer" -> makeReplacer(value, st, hp)
    [] parser.comb = "makeObjectPropertyPusher" ->
         makeObjectPropertyPusher(value, parser.property, nds[n].localName, st, hp)
    [] parser.comb = "makeObjectPropertySetter" ->
         makeObjectPropertySetter(value, parser.property, nds[n].localName, st, hp)

----------------------------------------------------------------------------
(* Write direction: nodes, node factories, serializer tables. *)

\* createElementNS(namespaceURI, qualifiedName): the DOM with a new,
\* detached element; its id is Len(nds) + 1
createElementNS(nds, namespaceURI, qualifiedName) ==
  Append(nds, [nodeType |-> "element", namespaceURI |-> namespaceURI,
               localName |-> qualifiedName, val |-> Undef,
               parentNode |-> 0, childNodes |-> <<>>])

\* parentNode.appendChild(node)
appendChild(nds, parentNode, node) ==
  [nds EXCEPT ![parentNode].childNodes = Append(@, node),
              ![node].parentNode = parentNode]

\* object[key] for a value of any kind: undefined when there is none
GetProp(object, key, hp) ==
  IF IsObject(object, hp) /\ hp[object.v].props[key] # Absent
    THEN hp[object.v].props[key]
    ELSE Undef

\* a node factory: [kind, nodeName, namespaceURI]; "" is an omitted argument
NF(kind, nodeName, namespaceURI) ==
  [kind |-> kind, nodeName |-> nodeName, namespaceURI |-> namespaceURI]

NoFactory == NF("", "", "")

OBJECT_PROPERTY_NODE_FACTORY == NF("makeSimpleNodeFactory", "", "")

\* the outcome of a node factory: ok (FALSE: it threw), the DOM, the node
\* (0: it returned undefined)
Made(ok, nds, node) == [ok |-> ok, nds |-> nds, node |-> node]

\* a factory that prefers the name given per call to the fixed one
makeSimpleNodeFactory_hintFirst(fixedNodeName, opt_namespaceURI, st, hp, nds, opt_nodeName) ==
  IF st = <<>>
    THEN Made(FALSE, nds, 0)
    ELSE
      LET context == Top(st)
          node == GetProp(context, "node", hp)
          nodeName == IF opt_nodeName # "" THEN opt_nodeName
                      ELSE IF fixedNodeName # "" THEN fixedNodeName
                      ELSE "undefined"
      IN IF opt_namespaceURI # ""
           THEN Made(TRUE, createElementNS(nds, opt_namespaceURI, nodeName),
                     Len(nds) + 1)
           ELSE IF node.t # "node"
             THEN Made(FALSE, nds, 0)
             ELSE Made(TRUE,
                       createElementNS(nds, nds[node.v].namespaceURI, nodeName),
                       Len(nds) + 1)

\* the factory makeSimpleNodeFactory(fixedNodeName, opt_namespaceURI)
\* called with (value, objectStack, opt_nodeName)
makeSimpleNodeFactory(fixedNodeName, opt_namespaceURI, st, hp, nds, opt_nodeName) ==
  IF st = <<>>
    THEN Made(FALSE, nds, 0)               \* context is undefined
    ELSE
      LET context == Top(st)
          node == GetProp(context, "node", hp)
          nodeName == IF fixedNodeName # "" THEN fixedNodeName
                      ELSE IF opt_nodeName # "" THEN opt_nodeName
                      ELSE "undefined"
      IN IF opt_namespaceURI # ""
           THEN Made(TRUE, createElementNS(nds, opt_namespaceURI, nodeName),
                     Len(nds) + 1)
           ELSE IF node.t # "node"
             THEN Made(FALSE, nds, 0)      \* node.namespaceURI of undefined
             ELSE Made(TRUE,
                       createElementNS(nds, nds[node.v].namespaceURI, nodeName),
                       Len(nds) + 1)

\* a client node factory that decides by the value: an "a" element for an
\* odd number, no node (undefined) for anything else
oddNodeFactory(value, st, hp, nds) ==
  IF value.t = "num" /\ value.v % 2 = 1
    THEN makeSimpleNodeFactory("a", "", st, hp, nds, "")
    ELSE Made(TRUE, nds, 0)

nodeFactoryCall(factory, value, st, hp, nds, opt_nodeName) ==
  IF factory.kind = "makeSimpleNodeFactory"
    THEN makeSimpleNodeFactory(factory.nodeName, factory.namespaceURI,
                               st, hp, nds, opt_nodeName)
    ELSE oddNodeFactory(value, st, hp, nds)

\* a sequence of the values the object has, the missing ones left out
makeSequence_dense(object, orderedKeys, hp) ==
  LET ks == SelectSeq(orderedKeys, LAMBDA k : GetProp(object, k, hp) # Undef)
  IN [i \in 1..Len(ks) |-> GetProp(object, ks[i], hp)]

\* makeSequence(object, orderedKeys)
makeSequence(object, orderedKeys, hp) ==
  [i \in 1..Len(orderedKeys) |-> GetProp(object, orderedKeys[i], hp)]

\* the variables serializersNS and nodeFactory of a makeArraySerializer
\* closure (line 295): not yet assigned, or the one-entry table
\* {namespaceURI: {localName: nodeWriter}} and the factory
\* makeSimpleNodeFactory(localName)
Unassigned == [assigned |-> FALSE, namespaceURI |-> "", localName |-> ""]

\* the closures of the model: one per call of makeArraySerializer
ClosureIds == {"shared", "a", "b", "c"}

NoClosures == [id \in ClosureIds |-> Unassigned]

\* a Serializer: makeChildAppender applied to a node writer (id names the
\* closure of a serializer that has captured variables, "" when it has none)
S(kind, writer) == [kind |-> kind, writer |-> writer, id |-> ""]

NoSerializer == S("", "")

SAll ==
  [ns1 |-> [a |-> S("makeChildAppender", "writeText"),
            b |-> S("makeChildAppender", "writeNested"),
            c |-> S("makeChildAppender", "writeText")]]
SPart ==
  [ns1 |-> [a |-> S("makeChildAppender", "writeText"),
            b |-> S("makeChildAppender", "writeNested")]]

\* makeStructureNS(namespaceURIs, structure): the same structure under
\* every namespace URI
makeStructureNS(namespaceURIs, structure) ==
  [ns \in {namespaceURIs[i] : i \in 1..Len(namespaceURIs)} |-> structure]

\* makeArraySerializer(nodeWriter) for a nodeWriter that is a child
\* appender; id names the closure this call creates
makeArraySerializer(id, nodeWriter) ==
  [kind |-> "makeArraySerializer", writer |-> nodeWriter.writer, id |-> id]

\* lines 297-303: the closure's variables after the test
\* serializersNS === undefined, for a call with the node `node`
arraySerializerAssign(cl, node) ==
  IF ~cl.assigned
    THEN [assigned |-> TRUE, namespaceURI |-> node.namespaceURI,
          localName |-> node.localName]
    ELSE cl

\* a node factory without the fixed name
closureNodeFactory_noName(cl) == NF("makeSimpleNodeFactory", "", "")

\* the closure's serializersNS (lines 298-301) and nodeFactory (line 302)
closureSerializersNS(cl, nodeWriter) ==
  cl.namespaceURI :> (cl.localName :> nodeWriter)

closureNodeFactory(cl) == NF("makeSimpleNodeFactory", cl.localName, "")

\* one array serializer, registered under two names in two namespaces
SharedSerializer ==
  makeArraySerializer("shared", S("makeChildAppender", "writeText"))

SArr ==
  makeStructureNS(<<"ns1", "ns2">>,
                  [m |-> SharedSerializer, k |-> SharedSerializer])

\* the serializers of a round trip: every element may repeat, so each local
\* name has an array serializer of its own over the writer of one element
SRound ==
  [ns1 |-> [a |-> makeArraySerializer("a", S("makeChildAppender", "writeText")),
            b |-> makeArraySerializer("b", S("makeChildAppender", "writeNested")),
            c |-> makeArraySerializer("c", S("makeChildAppender", "writeNested"))]]

\* serializersNS[namespaceURI][localName] where both lookups succeed
HasSerializer(serializersNS, ns, name) ==
  /\ ns \in DOMAIN serializersNS
  /\ name \in DOMAIN serializersNS[ns]

\* values[i] of a JavaScript array, i counted from 0
At(values, i) == IF i + 1 \in 1..Len(values) THEN values[i + 1] ELSE Undef

----------------------------------------------------------------------------
(* Activation frames.  fn names the function, pc where it stands.  The     *)
(* fields considered, invoked, applied and stack0 are history kept for the *)
(* properties: the children parseNode looked up, those it called a parser  *)
(* for, the reader values its parsers were given, and the object stack as  *)
(* it was when pushParseAndPop / pushSerializeAndPop was called; elems0    *)
(* is what the pushed object held as array elements at that moment.        *)

F0 ==
  [fn |-> "", pc |-> "", tbl |-> "", node |-> 0, n |-> 0, object |-> Undef,
   parser |-> NoParser, stack0 |-> <<>>, elems0 |-> <<>>,
   considered |-> <<>>, invoked |-> <<>>, applied |-> <<>>,
   factory |-> NoFactory, values |-> <<>>, keys |-> <<>>, hasKeys |-> FALSE,
   i |-> 0, value |-> Undef, serializer |-> NoSerializer, stbl |-> <<>>,
   calls |-> <<>>]

TopFrame == cstack[Len(cstack)]

Running == status = "running" /\ cstack # <<>>

ReplaceTop(cs, f) == [cs EXCEPT ![Len(cs)] = f]

\* an uncaught exception: every activation is abandoned
Throw ==
  /\ status' = "thrown"
  /\ cstack' = <<>>
  /\ UNCHANGED <<nodes, heap, objectStack, ret, cfg, closure, call>>

----------------------------------------------------------------------------
(* Read direction. *)

\* pushParseAndPop, lines 437-438: push the object, call parseNode
pushParseAndPopCall ==
  /\ Running
  /\ TopFrame.fn = "pushParseAndPop" /\ TopFrame.pc = "push"
  /\ objectStack' = Append(objectStack, TopFrame.object)
  /\ cstack' = Append(ReplaceTop(cstack, [TopFrame EXCEPT !.pc = "pop"]),
                      [F0 EXCEPT !.fn = "parseNode", !.pc = "loop",
                                 !.tbl = TopFrame.tbl, !.node = TopFrame.node,
                                 !.object = TopFrame.object,
                                 !.stack0 = TopFrame.stack0,
                                 !.elems0 = TopFrame.elems0,
                                 !.n = firstElementChild(nodes, TopFrame.node)])
  /\ UNCHANGED <<nodes, heap, status, ret, cfg, closure, call>>

\* parseNode, lines 413-420, an element child with no parser: next sibling
parseNodeSkip ==
  /\ Running
  /\ TopFrame.fn = "parseNode" /\ TopFrame.pc = "loop" /\ TopFrame.n # 0
  /\ LET f == TopFrame
         n == nodes[f.n]
     IN /\ parserFor(parsersNSOf(f.tbl), n.namespaceURI, n.localName) = NoParser
        /\ cstack' = ReplaceTop(cstack,
                       [f EXCEPT !.n = nextElementSibling(nodes, f.n),
                                 !.considered = Append(@, f.n)])
  /\ UNCHANGED <<nodes, heap, objectStack, status, ret, cfg, closure, call>>

\* parseNode, lines 413-418, an element child with a parser: call it
parseNodeDispatch ==
  /\ Running
  /\ TopFrame.fn = "parseNode" /\ TopFrame.pc = "loop" /\ TopFrame.n # 0
  /\ LET f == TopFrame
         n == nodes[f.n]
         parser == parserFor(parsersNSOf(f.tbl), n.namespaceURI, n.localName)
     IN /\ parser # NoParser
        /\ cstack' = Append(ReplaceTop(cstack,
                              [f EXCEPT !.pc = "called",
                                        !.considered = Append(@, f.n),
                                        !.invoked = Append(@, f.n)]),
                            [F0 EXCEPT !.fn = "parser", !.pc = "read",
                                       !.tbl = f.tbl, !.node = f.n,
                                       !.parser = parser])
  /\ UNCHANGED <<nodes, heap, objectStack, status, ret, cfg, closure, call>>

\* parseNode, line 413, no element child left: return to pushParseAndPop
parseNodeReturn ==
  /\ Running
  /\ TopFrame.fn = "parseNode" /\ TopFrame.pc = "loop" /\ TopFrame.n = 0
  /\ LET f == TopFrame
         k == Len(cstack) - 1
     IN cstack' = [i \in 1..k |->
                     IF i = k THEN [cstack[k] EXCEPT !.considered = f.considered,
                                                     !.invoked = f.invoked,
                                                     !.applied = f.applied]
                     ELSE cstack[i]]
  /\ UNCHANGED <<nodes, heap, objectStack, status, ret, cfg, closure, call>>

\* what a parser was given: its combinator, node, reader value, and the
\* elements of that value when it is an array
Applied(parser, n, value, hp) ==
  [comb |-> parser.comb, property |-> parser.property, node |-> n,
   value |-> value,
   elems |-> IF IsObject(value, hp) /\ hp[value.v].isArray
               THEN hp[value.v].elems ELSE <<>>]

\* the parser on top of cs has returned: parseNode goes to the next sibling
ParserDone(cs, entry) ==
  LET k == Len(cs) - 1
  IN [i \in 1..k |->
        IF i = k THEN [cs[k] EXCEPT !.n = nextElementSibling(nodes, cs[k].n),
                                    !.pc = "loop",
                                    !.applied = Append(@, entry)]
        ELSE cs[i]]

\* the end of a parser: the combinator's effect r, or its exception
ParserEffect(f, value, hp) ==
  LET r == applyParser(f.parser, value, nodes, f.node, objectStack, hp)
  IN IF r.ok
       THEN /\ objectStack' = r.st
            /\ heap' = r.hp
            /\ cstack' = ParserDone(cstack, Applied(f.parser, f.node, value, hp))
            /\ UNCHANGED <<nodes, status, ret, cfg, closure, call>>
       ELSE Throw

\* a parser whose value reader does not recurse: read, then accumulate
parserRead ==
  /\ Running
  /\ TopFrame.fn = "parser" /\ TopFrame.pc = "read"
  /\ TopFrame.parser.reader \in {"readScalar", "readList"}
  /\ LET f == TopFrame
     IN IF f.parser.reader = "readScalar"
          THEN ParserEffect(f, readScalar(nodes, f.node), heap)
          ELSE IF readListElems(nodes, f.node) = <<>>
            THEN ParserEffect(f, Undef, heap)
            ELSE ParserEffect(f, Ref(Len(heap) + 1),
                              Append(heap, NewArray(readListElems(nodes, f.node))))

\* a value reader that parses the node into a fresh accumulator
readNestedCall ==
  /\ Running
  /\ TopFrame.fn = "parser" /\ TopFrame.pc = "read"
  /\ TopFrame.parser.reader = "readNested"
  /\ LET f == TopFrame
     IN /\ heap' = Append(heap, IF f.parser.seed = "array" THEN NewArray(<<>>)
                                ELSE NewObject(NoProps))
        /\ cstack' = Append(ReplaceTop(cstack, [f EXCEPT !.pc = "apply"]),
                            [F0 EXCEPT !.fn = "pushParseAndPop", !.pc = "push",
                                       !.tbl = f.tbl, !.node = f.node,
                                       !.object = Ref(Len(heap) + 1),
                                       !.stack0 = objectStack])
  /\ UNCHANGED <<nodes, objectStack, status, ret, cfg, closure, call>>

\* the nested reader has returned ret: accumulate it
parserApply ==
  /\ Running
  /\ TopFrame.fn = "parser" /\ TopFrame.pc = "apply"
  /\ ParserEffect(TopFrame, ret, heap)

\* a pushParseAndPop that pops and returns the object it was given
pushParseAndPopReturn_seed ==
  /\ Running
  /\ TopFrame.fn = "pushParseAndPop" /\ TopFrame.pc = "pop"
  /\ ret' = TopFrame.object
  /\ objectStack' = Front(objectStack)
  /\ cstack' = Front(cstack)
  /\ status' = IF Len(cstack) = 1 THEN "done" ELSE status
  /\ UNCHANGED <<nodes, heap, cfg, closure, call>>

\* a pushParseAndPop that returns the top of the stack and leaves it there
pushParseAndPopReturn_keep ==
  /\ Running
  /\ TopFrame.fn = "pushParseAndPop" /\ TopFrame.pc = "pop"
  /\ ret' = IF objectStack = <<>> THEN Undef ELSE Top(objectStack)
  /\ objectStack' = objectStack
  /\ cstack' = Front(cstack)
  /\ status' = IF Len(cstack) = 1 THEN "done" ELSE status
  /\ UNCHANGED <<nodes, heap, cfg, closure, call>>

\* pushParseAndPop, line 439: return objectStack.pop()
pushParseAndPopReturn ==
  /\ Running
  /\ TopFrame.fn = "pushParseAndPop" /\ TopFrame.pc = "pop"
  /\ ret' = IF objectStack = <<>> THEN Undef ELSE Top(objectStack)
  /\ objectStack' = Front(objectStack)
  /\ cstack' = Front(cstack)
  /\ status' = IF Len(cstack) = 1 THEN "done" ELSE status
  /\ UNCHANGED <<nodes, heap, cfg, closure, call>>

----------------------------------------------------------------------------
(* The top-level call: pushParseAndPop(seed, parsersNS, root, objectStack) *)
(* on a stack that is empty or holds one record of the caller's; the seed  *)
(* is an array holding 0, a new record, or that record of the caller's.    *)

ParseConfigs ==
  {c \in [mode : {"parse"}, tbl : ParserTableNames,
          seed : {"array", "record", "alias"}, depth : {0, 1}] :
     \/ c.seed = "array" /\ c.depth = 0
     \/ c.seed = "record" /\ c.depth = 1
     \/ c.seed = "alias" /\ c.depth = 1}

InitParse ==
  /\ cfg \in ParseConfigs
  /\ nodes \in Docs
  /\ LET below == IF cfg.depth = 1 THEN <<NewObject(NoProps)>> ELSE <<>>
     IN /\ heap = IF cfg.seed = "alias" THEN below
                  ELSE Append(below, IF cfg.seed = "array"
                                       THEN NewArray(<<Num(0)>>)
                                       ELSE NewObject(NoProps))
        /\ objectStack = IF cfg.depth = 1 THEN <<Ref(1)>> ELSE <<>>
        /\ cstack = <<[F0 EXCEPT !.fn = "pushParseAndPop", !.pc = "push",
                                 !.tbl = cfg.tbl, !.node = 1,
                                 !.object = Ref(Len(heap)),
                                 !.stack0 = objectStack,
                                 !.elems0 = heap[Len(heap)].elems]>>
  /\ status = "running"
  /\ ret = Undef
  /\ closure = NoClosures
  /\ call = 1

NextParse ==
  \/ pushParseAndPopCall
  \/ parseNodeSkip
  \/ parseNodeDispatch
  \/ parseNodeReturn
  \/ parserRead
  \/ readNestedCall
  \/ parserApply
  \/ pushParseAndPopReturn

SpecParse == InitParse /\ [][NextParse]_vars

----------------------------------------------------------------------------
(* Write direction. *)

\* pushSerializeAndPop, lines 507-508: push the object, call serialize
pushSerializeAndPopCall ==
  /\ Running
  /\ TopFrame.fn = "pushSerializeAndPop" /\ TopFrame.pc = "push"
  /\ objectStack' = Append(objectStack, TopFrame.object)
  /\ cstack' = Append(ReplaceTop(cstack, [TopFrame EXCEPT !.pc = "pop"]),
                      [F0 EXCEPT !.fn = "serialize", !.pc = "loop",
                                 !.stbl = TopFrame.stbl,
                                 !.factory = TopFrame.factory,
                                 !.values = TopFrame.values,
                                 !.keys = TopFrame.keys,
                                 !.hasKeys = TopFrame.hasKeys,
                                 !.i = 0])
  /\ UNCHANGED <<nodes, heap, status, ret, cfg, closure, call>>

\* the length of values, keys or no keys
SerLength_values(f) == Len(f.values)

\* serialize, line 467
SerLength(f) == Len(IF f.hasKeys THEN f.keys ELSE f.values)

InSerializeLoop ==
  /\ Running
  /\ TopFrame.fn = "serialize" /\ TopFrame.pc = "loop"
  /\ TopFrame.i < SerLength(TopFrame)

\* serialize, lines 472-473: the node factory's outcome for values[i]
FactoryOutcome(f) ==
  nodeFactoryCall(f.factory, At(f.values, f.i), objectStack, heap, nodes,
                  IF f.hasKeys THEN f.keys[f.i + 1] ELSE "")

FactoryEvent(f, node) ==
  [op |-> "nodeFactory", i |-> f.i, value |-> At(f.values, f.i),
   key |-> IF f.hasKeys THEN f.keys[f.i + 1] ELSE "", node |-> node,
   serializer |-> NoSerializer]

SerializerEvent(f, node, ser) ==
  [op |-> "serializer", i |-> f.i, value |-> At(f.values, f.i),
   key |-> "", node |-> node, serializer |-> ser]

\* serialize, lines 470-471: values[i] is undefined
serializeAbsent ==
  /\ InSerializeLoop
  /\ At(TopFrame.values, TopFrame.i) = Undef
  /\ cstack' = ReplaceTop(cstack, [TopFrame EXCEPT !.i = @ + 1])
  /\ UNCHANGED <<nodes, heap, objectStack, status, ret, cfg, closure, call>>

\* serialize, lines 472-474: the node factory returns undefined
serializeNoNode ==
  /\ InSerializeLoop
  /\ At(TopFrame.values, TopFrame.i) # Undef
  /\ LET f == TopFrame
         m == FactoryOutcome(f)
     IN /\ m.ok /\ m.node = 0
        /\ cstack' = ReplaceTop(cstack,
                       [f EXCEPT !.i = @ + 1,
                                 !.calls = Append(@, FactoryEvent(f, 0))])
  /\ UNCHANGED <<nodes, heap, objectStack, status, ret, cfg, closure, call>>

\* serialize, lines 472-473: the node factory throws
nodeFactoryThrow ==
  /\ InSerializeLoop
  /\ At(TopFrame.values, TopFrame.i) # Undef
  /\ ~FactoryOutcome(TopFrame).ok
  /\ Throw

\* serialize, lines 472-476: the node factory returns a node, the table has
\* its serializer: call it
serializeDispatch ==
  /\ InSerializeLoop
  /\ At(TopFrame.values, TopFrame.i) # Undef
  /\ LET f == TopFrame
         m == FactoryOutcome(f)
     IN /\ m.ok /\ m.node # 0
        /\ HasSerializer(f.stbl, m.nds[m.node].namespaceURI,
                         m.nds[m.node].localName)
        /\ LET ser == f.stbl[m.nds[m.node].namespaceURI][m.nds[m.node].localName]
           IN cstack' =
                Append(ReplaceTop(cstack,
                         [f EXCEPT !.pc = "called",
                                   !.calls = @ \o <<FactoryEvent(f, m.node),
                                                    SerializerEvent(f, m.node, ser)>>]),
                       [F0 EXCEPT !.fn = "serializer", !.pc = "write",
                                  !.serializer = ser, !.node = m.node,
                                  !.value = At(f.values, f.i),
                                  !.stbl = f.stbl])
        /\ nodes' = m.nds
  /\ UNCHANGED <<heap, objectStack, status, ret, cfg, closure, call>>

\* serialize, lines 475-476: the node factory returns a node, the table has
\* no serializer for it: undefined[localName] or undefined.call throws
serializeMiss ==
  /\ InSerializeLoop
  /\ At(TopFrame.values, TopFrame.i) # Undef
  /\ LET f == TopFrame
         m == FactoryOutcome(f)
     IN /\ m.ok /\ m.node # 0
        /\ ~HasSerializer(f.stbl, m.nds[m.node].namespaceURI,
                          m.nds[m.node].localName)
        /\ nodes' = m.nds
  /\ status' = "thrown"
  /\ cstack' = <<>>
  /\ UNCHANGED <<heap, objectStack, ret, cfg, closure, call>>

\* serialize, line 469, i = length: return to pushSerializeAndPop
serializeReturn ==
  /\ Running
  /\ TopFrame.fn = "serialize" /\ TopFrame.pc = "loop"
  /\ TopFrame.i >= SerLength(TopFrame)
  /\ LET f == TopFrame
         k == Len(cstack) - 1
     IN cstack' = [j \in 1..k |->
                     IF j = k THEN [cstack[k] EXCEPT !.calls = f.calls,
                                                     !.i = f.i]
                     ELSE cstack[j]]
  /\ UNCHANGED <<nodes, heap, objectStack, status, ret, cfg, closure, call>>

\* a child appender that appends to the node of the frame at the bottom of
\* the stack
makeChildAppender_bottom(node, st, hp, nds) ==
  IF st = <<>>
    THEN [ok |-> FALSE, nds |-> nds]
    ELSE LET parent == st[1]
             parentNode == GetProp(parent, "node", hp)
         IN IF parentNode.t # "node"
              THEN [ok |-> FALSE, nds |-> nds]
              ELSE [ok |-> TRUE, nds |-> appendChild(nds, parentNode.v, node)]

\* makeChildAppender, lines 274-276: append node to the node of the frame
\* on top of the stack; ok is FALSE when that throws
makeChildAppender(node, st, hp, nds) ==
  IF st = <<>>
    THEN [ok |-> FALSE, nds |-> nds]       \* parent is undefined
    ELSE LET parent == Top(st)
             parentNode == GetProp(parent, "node", hp)
         IN IF parentNode.t # "node"
              THEN [ok |-> FALSE, nds |-> nds]   \* undefined.appendChild
              ELSE [ok |-> TRUE, nds |-> appendChild(nds, parentNode.v, node)]

\* the serializer on top of cs has returned: serialize goes on with i + 1
SerializerDone(cs) ==
  LET k == Len(cs) - 1
  IN [j \in 1..k |->
        IF j = k THEN [cs[k] EXCEPT !.i = @ + 1, !.pc = "loop"] ELSE cs[j]]

\* the end of a child appender
AppendEffect(f, nds) ==
  LET r == makeChildAppender(f.node, objectStack, heap, nds)
  IN IF r.ok
       THEN /\ nodes' = r.nds
            /\ cstack' = SerializerDone(cstack)
            /\ status' = IF Len(cstack) = 1 THEN "done" ELSE status
            /\ UNCHANGED <<heap, objectStack, ret, cfg, closure, call>>
       ELSE /\ nodes' = nds
            /\ status' = "thrown"
            /\ cstack' = <<>>
            /\ UNCHANGED <<heap, objectStack, ret, cfg, closure, call>>

\* a child appender over writeText: the writer stores the value in the node
\* (line 273), then the node is appended (lines 274-276)
childAppenderWrite ==
  /\ Running
  /\ TopFrame.fn = "serializer" /\ TopFrame.pc = "write"
  /\ TopFrame.serializer.kind = "makeChildAppender"
  /\ TopFrame.serializer.writer = "writeText"
  /\ AppendEffect(TopFrame, [nodes EXCEPT ![TopFrame.node].val = TopFrame.value])

\* the serializer tables of the top-level calls, by name
SerializerTableNames == {"SAll", "SPart"}

serializersNSOf(name) ==
  CASE name = "SAll" -> SAll
    [] name = "SPart" -> SPart
    [] name = "SArr" -> SArr
    [] name = "SRound" -> SRound

\* a child appender over writeNested (line 273): the writer serializes the
\* record's properties, in the order of the ordered keys, under the node,
\* with the serializer table of the top-level call
writeNestedCall ==
  /\ Running
  /\ TopFrame.fn = "serializer" /\ TopFrame.pc = "write"
  /\ TopFrame.serializer.kind = "makeChildAppender"
  /\ TopFrame.serializer.writer = "writeNested"
  /\ LET f == TopFrame
     IN /\ heap' = Append(heap,
                     NewObject([NoProps EXCEPT !["node"] = NodeVal(f.node)]))
        /\ cstack' = Append(ReplaceTop(cstack, [f EXCEPT !.pc = "append"]),
                       [F0 EXCEPT !.fn = "pushSerializeAndPop", !.pc = "push",
                                  !.object = Ref(Len(heap) + 1),
                                  !.stbl = serializersNSOf(cfg.tbl),
                                  !.factory = OBJECT_PROPERTY_NODE_FACTORY,
                                  !.values = makeSequence(f.value, cfg.keys, heap),
                                  !.keys = cfg.keys, !.hasKeys = TRUE,
                                  !.stack0 = objectStack])
  /\ UNCHANGED <<nodes, objectStack, status, ret, cfg, closure, call>>

\* the nested writer has returned: append the node (lines 274-276)
childAppenderAppend ==
  /\ Running
  /\ TopFrame.fn = "serializer" /\ TopFrame.pc = "append"
  /\ AppendEffect(TopFrame, nodes)

\* pushSerializeAndPop, line 509: return objectStack.pop()
pushSerializeAndPopReturn ==
  /\ Running
  /\ TopFrame.fn = "pushSerializeAndPop" /\ TopFrame.pc = "pop"
  /\ ret' = IF objectStack = <<>> THEN Undef ELSE Top(objectStack)
  /\ objectStack' = Front(objectStack)
  /\ cstack' = Front(cstack)
  /\ status' = IF Len(cstack) = 1 THEN "done" ELSE status
  /\ UNCHANGED <<nodes, heap, cfg, closure, call>>

----------------------------------------------------------------------------
(* The top-level write calls.                                              *)
(* "direct": pushSerializeAndPop(context, serializersNS, nodeFactory,      *)
(* values, [], keys?) with values that are numbers or undefined.           *)
(* "record": a child appender over writeNested called on a new element and *)
(* a record, on a stack holding the document's context.                    *)

\* the values arrays of the direct calls: position i holds i or undefined
DirectValues ==
  UNION {{[i \in 1..k |-> IF i \in on THEN Num(i) ELSE Undef] : on \in SUBSET (1..k)} :
           k \in 0..MaxValues}

DirectSetups ==
  {[factory |-> OBJECT_PROPERTY_NODE_FACTORY, tbl |-> "SAll", ctx |-> "node"],
   [factory |-> OBJECT_PROPERTY_NODE_FACTORY, tbl |-> "SPart", ctx |-> "node"],
   [factory |-> OBJECT_PROPERTY_NODE_FACTORY, tbl |-> "SAll", ctx |-> "bare"],
   [factory |-> NF("makeSimpleNodeFactory", "a", ""), tbl |-> "SAll", ctx |-> "node"],
   [factory |-> NF("makeSimpleNodeFactory", "", "ns2"), tbl |-> "SAll", ctx |-> "node"],
   [factory |-> NF("oddNodeFactory", "", ""), tbl |-> "SAll", ctx |-> "node"]}

DirectConfigs ==
  {[mode |-> "direct", tbl |-> s.tbl, factory |-> s.factory, ctx |-> s.ctx,
    values |-> vs, hasKeys |-> hk, keys |-> ks, present |-> {}] :
     s \in DirectSetups, vs \in DirectValues, hk \in BOOLEAN,
     ks \in SeqsUpTo({"a", "c"}, MaxKeys)}

RecordConfigs ==
  {[mode |-> "record", tbl |-> t, factory |-> OBJECT_PROPERTY_NODE_FACTORY,
    ctx |-> "node", values |-> <<>>, hasKeys |-> TRUE, keys |-> ks,
    present |-> ps] :
     t \in SerializerTableNames, ks \in SeqsUpTo({"a", "b", "c"}, MaxKeys),
     ps \in SUBSET {"a", "b", "c"}}

RootElement ==
  [nodeType |-> "element", namespaceURI |-> "ns1", localName |-> "root",
   val |-> Undef, parentNode |-> 0, childNodes |-> <<>>]

\* the record {a: 1, b: {a: 11, c: 13}, c: 3} restricted to the keys in ps;
\* the inner record is heap[2]
RecordOf(ps) ==
  NewObject([k \in Keys |->
               IF k \notin ps THEN Absent
               ELSE IF k = "a" THEN Num(1)
               ELSE IF k = "b" THEN Ref(2)
               ELSE Num(3)])

InnerRecord == NewObject([NoProps EXCEPT !["a"] = Num(11), !["c"] = Num(13)])

Context(n) == NewObject([NoProps EXCEPT !["node"] = NodeVal(n)])

InitDirect ==
  /\ cfg \in {c \in DirectConfigs : ~c.hasKeys => c.keys = <<>>}
  /\ nodes = <<RootElement>>
  /\ heap = <<IF cfg.ctx = "node" THEN Context(1) ELSE NewObject(NoProps)>>
  /\ objectStack = <<>>
  /\ cstack = <<[F0 EXCEPT !.fn = "pushSerializeAndPop", !.pc = "push",
                           !.object = Ref(1),
                           !.stbl = serializersNSOf(cfg.tbl),
                           !.factory = cfg.factory, !.values = cfg.values,
                           !.keys = cfg.keys, !.hasKeys = cfg.hasKeys,
                           !.stack0 = <<>>]>>
  /\ status = "running"
  /\ ret = Undef
  /\ closure = NoClosures
  /\ call = 1

InitRecord ==
  /\ cfg \in RecordConfigs
  /\ nodes = <<[RootElement EXCEPT !.localName = "doc"], RootElement>>
  /\ heap = <<Context(1), InnerRecord, RecordOf(cfg.present)>>
  /\ objectStack = <<Ref(1)>>
  /\ cstack = <<[F0 EXCEPT !.fn = "serializer", !.pc = "write",
                           !.serializer = S("makeChildAppender", "writeNested"),
                           !.node = 2, !.value = Ref(3),
                           !.stbl = serializersNSOf(cfg.tbl)]>>
  /\ status = "running"
  /\ ret = Undef
  /\ closure = NoClosures
  /\ call = 1

InitWrite == InitDirect \/ InitRecord

NextWrite ==
  \/ pushSerializeAndPopCall
  \/ serializeAbsent
  \/ serializeNoNode
  \/ nodeFactoryThrow
  \/ serializeDispatch
  \/ serializeMiss
  \/ serializeReturn
  \/ childAppenderWrite
  \/ writeNestedCall
  \/ childAppenderAppend
  \/ pushSerializeAndPopReturn

SpecWrite == InitWrite /\ [][NextWrite]_vars

----------------------------------------------------------------------------
(* makeArraySerializer and makeStructureNS; top-level calls one after the  *)
(* other on the same serializer table.                                     *)

\* the Serializer returned by makeArraySerializer, lines 296-304: assign the
\* closure's variables on the first call, then call serialize over the value
arraySerializerCall ==
  /\ Running
  /\ TopFrame.fn = "serializer" /\ TopFrame.pc = "write"
  /\ TopFrame.serializer.kind = "makeArraySerializer"
  /\ LET f == TopFrame
         id == f.serializer.id
         cl == arraySerializerAssign(closure[id], nodes[f.node])
         nodeWriter == S("makeChildAppender", f.serializer.writer)
     IN /\ closure' = [closure EXCEPT ![id] = cl]
        /\ cstack' =
             Append(ReplaceTop(cstack, [f EXCEPT !.pc = "return"]),
                    [F0 EXCEPT !.fn = "serialize", !.pc = "loop",
                               !.stbl = closureSerializersNS(cl, nodeWriter),
                               !.factory = closureNodeFactory(cl),
                               !.values = IF IsObject(f.value, heap)
                                             /\ heap[f.value.v].isArray
                                            THEN heap[f.value.v].elems
                                            ELSE <<>>,
                               !.hasKeys = FALSE, !.i = 0])
  /\ UNCHANGED <<nodes, heap, objectStack, status, ret, cfg, call>>

\* line 305: serialize has returned, the Serializer returns
arraySerializerReturn ==
  /\ Running
  /\ TopFrame.fn = "serializer" /\ TopFrame.pc = "return"
  /\ cstack' = SerializerDone(cstack)
  /\ status' = IF Len(cstack) = 1 THEN "done" ELSE status
  /\ UNCHANGED <<nodes, heap, objectStack, ret, cfg, closure, call>>

\* a top-level call pushSerializeAndPop({node: root}, SArr, factory,
\* [[1, ..., n]], [], [key]) with a root element of namespace parentNs of
\* its own and an object stack of its own
ArrayCalls ==
  [parentNs : {"ns1", "ns2"}, key : {"m", "k"},
   factory : {OBJECT_PROPERTY_NODE_FACTORY,
              NF("makeSimpleNodeFactory", "", "ns2")},
   n : 0..MaxValues]

ArrayConfigs ==
  {[mode |-> "array", tbl |-> "SArr", calls |-> <<c1, c2>>] :
     c1 \in ArrayCalls, c2 \in ArrayCalls}

\* the activation of the call c whose context is heap[ctx] and whose array
\* is heap[ctx + 1]
ArrayCallFrame(c, ctx) ==
  [F0 EXCEPT !.fn = "pushSerializeAndPop", !.pc = "push",
             !.object = Ref(ctx), !.stbl = SArr, !.factory = c.factory,
             !.values = <<Ref(ctx + 1)>>, !.keys = <<c.key>>,
             !.hasKeys = TRUE, !.stack0 = <<>>]

ArrayOf(c) == NewArray([i \in 1..c.n |-> Num(i)])

InitArr ==
  /\ cfg \in ArrayConfigs
  /\ nodes = <<[RootElement EXCEPT !.namespaceURI = cfg.calls[1].parentNs]>>
  /\ heap = <<Context(1), ArrayOf(cfg.calls[1])>>
  /\ objectStack = <<>>
  /\ cstack = <<ArrayCallFrame(cfg.calls[1], 1)>>
  /\ status = "running"
  /\ ret = Undef
  /\ closure = NoClosures
  /\ call = 1

\* the first call has ended (returned or thrown): the caller makes the next
nextCall ==
  /\ cfg.mode = "array"
  /\ status \in {"done", "thrown"}
  /\ call < Len(cfg.calls)
  /\ LET c == cfg.calls[call + 1]
     IN /\ nodes' = Append(nodes, [RootElement EXCEPT !.namespaceURI = c.parentNs])
        /\ heap' = heap \o <<Context(Len(nodes) + 1), ArrayOf(c)>>
        /\ cstack' = <<ArrayCallFrame(c, Len(heap) + 1)>>
  /\ objectStack' = <<>>
  /\ status' = "running"
  /\ call' = call + 1
  /\ UNCHANGED <<ret, cfg, closure>>

NextArr ==
  \/ pushSerializeAndPopCall
  \/ serializeDispatch
  \/ serializeMiss
  \/ serializeReturn
  \/ arraySerializerCall
  \/ arraySerializerReturn
  \/ childAppenderWrite
  \/ pushSerializeAndPopReturn
  \/ nextCall

SpecArr == InitArr /\ [][NextArr]_vars

----------------------------------------------------------------------------

(* A round trip: a document is parsed into a record with pushParseAndPop,  *)
(* then the record is written under a new root with pushSerializeAndPop.   *)

\* documents of elements the parsers of the round trip know (and text)
RoundDocs == {Doc(cs) : cs \in SeqsUpTo({LA, LB, LC, LT}, MaxChildren)}

RoundConfigs ==
  {[mode |-> "round", tbl |-> "SRound", keys |-> <<"a", "b", "c">>]}

InitRound ==
  /\ cfg \in RoundConfigs
  /\ nodes \in RoundDocs
  /\ heap = <<NewObject(NoProps)>>
  /\ objectStack = <<>>
  /\ cstack = <<[F0 EXCEPT !.fn = "pushParseAndPop", !.pc = "push",
                           !.tbl = "TRound", !.node = 1, !.object = Ref(1),
                           !.stack0 = <<>>]>>
  /\ status = "running"
  /\ ret = Undef
  /\ closure = NoClosures
  /\ call = 1

\* pushParseAndPop has returned the record: the caller makes a root element
\* and writes the record under it with pushSerializeAndPop({node: root},
\* SRound, OBJECT_PROPERTY_NODE_FACTORY, makeSequence(record, keys), [], keys)
roundTripWrite ==
  /\ cfg.mode = "round"
  /\ status = "done"
  /\ call = 1
  /\ nodes' = Append(nodes, RootElement)
  /\ heap' = Append(heap, Context(Len(nodes) + 1))
  /\ objectStack' = <<>>
  /\ cstack' = <<[F0 EXCEPT !.fn = "pushSerializeAndPop", !.pc = "push",
                            !.object = Ref(Len(heap) + 1),
                            !.stbl = serializersNSOf(cfg.tbl),
                            !.factory = OBJECT_PROPERTY_NODE_FACTORY,
                            !.values = makeSequence(ret, cfg.keys, heap),
                            !.keys = cfg.keys, !.hasKeys = TRUE,
                            !.stack0 = <<>>]>>
  /\ status' = "running"
  /\ call' = 2
  /\ UNCHANGED <<ret, cfg, closure>>

NextRound ==
  \/ pushParseAndPopCall
  \/ parseNodeDispatch
  \/ parseNodeReturn
  \/ parserRead
  \/ readNestedCall
  \/ parserApply
  \/ pushParseAndPopReturn
  \/ roundTripWrite
  \/ pushSerializeAndPopCall
  \/ serializeAbsent
  \/ serializeDispatch
  \/ serializeReturn
  \/ arraySerializerCall
  \/ arraySerializerReturn
  \/ childAppenderWrite
  \/ writeNestedCall
  \/ childAppenderAppend
  \/ pushSerializeAndPopReturn

SpecRound == InitRound /\ [][NextRound]_vars

----------------------------------------------------------------------------

(* Both directions. *)

Init == InitParse \/ InitWrite

Next == NextParse \/ NextWrite

Spec == Init /\ [][Next]_vars

----------------------------------------------------------------------------
(* Properties. *)

\* a pushParseAndPop or pushSerializeAndPop is about to return
AtReturn ==
  /\ Running
  /\ TopFrame.fn \in {"pushParseAndPop", "pushSerializeAndPop"}
  /\ TopFrame.pc = "pop"

\* C1: when pushParseAndPop or pushSerializeAndPop returns, whatever the
\* seed, table, node and initial stack and however deep its handlers
\* recursed through the same functions, the object stack is the stack of
\* the moment of the call: the same depth, the same frames in the same order.
C1_PushPopBalance ==
  [][AtReturn => objectStack' = TopFrame.stack0]_vars

\* a nested pushParseAndPop, two levels below the top-level one, has just
\* returned its accumulator to the parser that called it
C1_Witness ==
  /\ Running
  /\ TopFrame.fn = "parser" /\ TopFrame.pc = "apply"
  /\ Len(cstack) >= 6
  /\ ret.t = "ref"
  /\ Len(objectStack) = cfg.depth + 2

\* parseNode stands at an element child that the table has no parser for
AtParserMiss ==
  /\ Running
  /\ TopFrame.fn = "parseNode" /\ TopFrame.pc = "loop" /\ TopFrame.n # 0
  /\ LET t == parsersNSOf(TopFrame.tbl)
         n == nodes[TopFrame.n]
     IN \/ n.namespaceURI \notin DOMAIN t
        \/ n.localName \notin DOMAIN t[n.namespaceURI]

\* C2: an element child whose namespace is not in the parser table, or
\* whose local name is not in its namespace's table, is skipped: no parser
\* is called, nothing is thrown, the object stack and every object are as
\* before, and parseNode goes on with the next element sibling.
C2_ParserMissIsSilent ==
  [][AtParserMiss =>
       /\ status' = "running"
       /\ objectStack' = objectStack
       /\ heap' = heap
       /\ Len(cstack') = Len(cstack)
       /\ cstack'[Len(cstack)].fn = "parseNode"
       /\ cstack'[Len(cstack)].pc = "loop"
       /\ cstack'[Len(cstack)].invoked = TopFrame.invoked
       /\ cstack'[Len(cstack)].n = nextElementSibling(nodes, TopFrame.n)]_vars

\* parseNode has skipped a child of a foreign namespace and a child with an
\* unknown local name, and stands at a further sibling
C2_Witness ==
  /\ Running
  /\ TopFrame.fn = "parseNode" /\ TopFrame.pc = "loop" /\ TopFrame.n # 0
  /\ \E i, j \in 1..Len(TopFrame.considered) :
       /\ nodes[TopFrame.considered[i]].namespaceURI = "ns2"
       /\ nodes[TopFrame.considered[j]].namespaceURI = "ns1"
       /\ nodes[TopFrame.considered[j]].localName
            \notin DOMAIN parsersNSOf(TopFrame.tbl).ns1
  /\ TopFrame.invoked = <<>>

\* serialize stands at a value whose node the table has no serializer for
AtSerializerMiss ==
  /\ InSerializeLoop
  /\ At(TopFrame.values, TopFrame.i) # Undef
  /\ LET m == FactoryOutcome(TopFrame)
     IN /\ m.ok /\ m.node # 0
        /\ \/ m.nds[m.node].namespaceURI \notin DOMAIN TopFrame.stbl
           \/ m.nds[m.node].localName
                \notin DOMAIN TopFrame.stbl[m.nds[m.node].namespaceURI]

\* C3: a value whose node has no entry in the serializer table (its
\* namespace or its local name is missing) is skipped: nothing is thrown,
\* the stack is as before, no node is appended, and serialize goes on with
\* the next value.
C3_SerializerMissIsSilent ==
  [][AtSerializerMiss =>
       /\ status' = "running"
       /\ objectStack' = objectStack
       /\ Len(cstack') = Len(cstack)
       /\ cstack'[Len(cstack)].i = TopFrame.i + 1
       /\ \A k \in 1..Len(nodes) : nodes'[k] = nodes[k]]_vars

\* the value at index j (from 0) of a serialize call's values
ValueAt(f, j) == IF j + 1 <= Len(f.values) THEN f.values[j + 1] ELSE Undef

\* the node the node factory returned at index j, 0 when none
NodeMadeAt(f, j) ==
  IF \E e \in 1..Len(f.calls) :
       f.calls[e].op = "nodeFactory" /\ f.calls[e].i = j
    THEN f.calls[CHOOSE e \in 1..Len(f.calls) :
                   f.calls[e].op = "nodeFactory" /\ f.calls[e].i = j].node
    ELSE 0

RegisteredFor(f, nd) ==
  IF /\ nodes[nd].namespaceURI \in DOMAIN f.stbl
     /\ nodes[nd].localName \in DOMAIN f.stbl[nodes[nd].namespaceURI]
    THEN f.stbl[nodes[nd].namespaceURI][nodes[nd].localName]
    ELSE NoSerializer

\* the calls serialize has to have made for the indices 0..d-1
RECURSIVE CallsUpTo(_, _)
CallsUpTo(f, d) ==
  IF d = 0 THEN <<>>
  ELSE LET j == d - 1
           v == ValueAt(f, j)
           nd == NodeMadeAt(f, j)
       IN CallsUpTo(f, j) \o
          (IF v = Undef THEN <<>>
           ELSE <<[op |-> "nodeFactory", i |-> j, value |-> v,
                   key |-> IF f.hasKeys THEN f.keys[j + 1] ELSE "",
                   node |-> nd, serializer |-> NoSerializer]>> \o
                (IF nd = 0 THEN <<>>
                 ELSE <<[op |-> "serializer", i |-> j, value |-> v, key |-> "",
                         node |-> nd, serializer |-> RegisteredFor(f, nd)]>>))

\* C4: serialize makes its calls for the indices 0, 1, ... in this order up
\* to n = the length of keys when given, of values otherwise: nothing for an
\* index whose value is undefined; else one node factory call with the
\* value and the key of that index, followed, when the factory returned a
\* node, by one call of the serializer registered for the node's namespace
\* and local name with that node and value.  When it returns, all n
\* indices have been visited.
C4_SerializeCalls ==
  \A k \in 1..Len(cstack) :
    LET f == cstack[k]
        n == IF f.hasKeys THEN Len(f.keys) ELSE Len(f.values)
    IN /\ f.fn = "serialize" /\ f.pc = "loop" =>
            f.i <= n /\ f.calls = CallsUpTo(f, f.i)
       /\ f.fn = "serialize" /\ f.pc = "called" =>
            /\ f.i < n /\ f.calls = CallsUpTo(f, f.i + 1)
            /\ cstack[k + 1].fn = "serializer"
            /\ cstack[k + 1].serializer = f.calls[Len(f.calls)].serializer
            /\ cstack[k + 1].node = f.calls[Len(f.calls)].node
            /\ cstack[k + 1].value = ValueAt(f, f.i)
       /\ f.fn = "pushSerializeAndPop" /\ f.pc = "pop" /\ k = Len(cstack) =>
            f.i = n /\ f.calls = CallsUpTo(f, n)

\* serialize has returned from the values <<1, 2, undefined>> with a factory
\* that gave a node for 1 and none for 2: two factory calls, one serializer
\* call, nothing for the undefined value
C4_Witness ==
  /\ AtReturn
  /\ TopFrame.fn = "pushSerializeAndPop"
  /\ TopFrame.values = <<Num(1), Num(2), Undef>>
  /\ ~TopFrame.hasKeys
  /\ Len(TopFrame.calls) = 3
  /\ TopFrame.calls[2].op = "serializer"
  /\ TopFrame.calls[3].node = 0

\* the elements under `node` are those of the record r for the ordered
\* keys: one per key r has, in the order of the keys, named by the key and
\* holding r's value for it (for a record value: its own elements)
EmittedFlat(node, r) ==
  LET exp == SelectSeq(cfg.keys, LAMBDA k : heap[r].props[k] # Absent)
      kids == nodes[node].childNodes
  IN /\ Len(kids) = Len(exp)
     /\ \A i \in 1..Len(exp) :
          /\ nodes[kids[i]].nodeType = "element"
          /\ nodes[kids[i]].namespaceURI = nodes[node].namespaceURI
          /\ nodes[kids[i]].localName = exp[i]
          /\ nodes[kids[i]].val = heap[r].props[exp[i]]

Emitted(node, r) ==
  LET exp == SelectSeq(cfg.keys, LAMBDA k : heap[r].props[k] # Absent)
      kids == nodes[node].childNodes
  IN /\ Len(kids) = Len(exp)
     /\ \A i \in 1..Len(exp) :
          /\ nodes[kids[i]].nodeType = "element"
          /\ nodes[kids[i]].namespaceURI = nodes[node].namespaceURI
          /\ nodes[kids[i]].localName = exp[i]
          /\ IF heap[r].props[exp[i]].t = "ref"
               THEN EmittedFlat(kids[i], heap[r].props[exp[i]].v)
               ELSE nodes[kids[i]].val = heap[r].props[exp[i]]

\* C5: makeSequence(record, keys) has the length of keys and holds at each
\* position the record's value for that position's key, undefined when the
\* record has none; serialized with the same keys, the name-hint node
\* factory and child appenders, it gives one element per key the record
\* has, named by the key, holding its value, in the order of the keys, and
\* nothing for the keys the record lacks.
C5_SparseSequence ==
  cfg.mode = "record" =>
    /\ Len(cstack) >= 2 =>
         /\ cstack[2].fn = "pushSerializeAndPop"
         /\ Len(cstack[2].values) = Len(cfg.keys)
         /\ \A i \in 1..Len(cfg.keys) :
              cstack[2].values[i] =
                IF heap[3].props[cfg.keys[i]] = Absent THEN Undef
                ELSE heap[3].props[cfg.keys[i]]
    /\ status = "done" => Emitted(2, 3) /\ nodes[1].childNodes = <<2>>

\* the record {a: 1, b: {a: 11, c: 13}} has been serialized with the keys
\* a, b, c: no element for c, whose position held undefined
C5_Witness ==
  /\ cfg.mode = "record"
  /\ status = "done"
  /\ cfg.keys = <<"a", "b", "c">>
  /\ cfg.present = {"a", "b"}
  /\ Len(nodes[2].childNodes) = 2

\* the accumulator slot of the parseNode activation f
Slot(f) == Len(f.stack0) + 1

\* the parser calls of f's level whose reader gave a value
Present(f) == SelectSeq(f.applied, LAMBDA e : e.value # Undef)

\* the key a property parser called on node e.node uses
KeyOf(e) == IF e.property # "" THEN e.property ELSE nodes[e.node].localName

RECURSIVE ValuesFor(_, _)
ValuesFor(es, key) ==
  IF es = <<>> THEN <<>>
  ELSE (IF KeyOf(Head(es)) = key THEN <<Head(es).value>> ELSE <<>>)
       \o ValuesFor(Tail(es), key)

\* C6: at a level where the parsers that got a value were all property
\* pushers, the record on top holds under each key the sequence of the
\* values pushed for that key (explicit property, else the child's local
\* name), in document order, and no sequence under a key nothing was pushed
\* for.
C6_PropertyPush ==
  \A k \in 1..Len(cstack) :
    LET f == cstack[k]
    IN (/\ f.fn = "parseNode"
        /\ \A i \in 1..Len(Present(f)) :
             Present(f)[i].comb = "makeObjectPropertyPusher")
       => /\ objectStack[Slot(f)] = f.object
          /\ \A key \in {"a", "b", "c"} :
               LET vs == ValuesFor(Present(f), key)
                   held == heap[f.object.v].props[key]
               IN IF vs = <<>> THEN held = Absent
                  ELSE /\ held.t = "ref"
                       /\ heap[held.v].isArray
                       /\ heap[held.v].elems = vs

\* all children of the root are done: two values under "a" (one pushed by
\* the default key of an a child, one by the explicit property of a c
\* child) and an independent sequence under "b"
C6_Witness ==
  /\ Running
  /\ Len(cstack) = 2 /\ TopFrame.fn = "parseNode" /\ TopFrame.n = 0
  /\ TopFrame.tbl = "TObj"
  /\ Len(Present(TopFrame)) = 3
  /\ Len(ValuesFor(Present(TopFrame), "a")) = 2
  /\ Len(ValuesFor(Present(TopFrame), "b")) = 1
  /\ \E i \in 1..3 : Present(TopFrame)[i].property = "a"
  /\ \E i \in 1..3 : nodes[Present(TopFrame)[i].node].localName = "a"

RECURSIVE Appended(_)
\* what array pushers and extenders given the values of es append
Appended(es) ==
  IF es = <<>> THEN <<>>
  ELSE (IF Head(es).comb = "makeArrayPusher" THEN <<Head(es).value>>
        ELSE Head(es).elems)
       \o Appended(Tail(es))

\* C7: at a level where the parsers that got a value were all array pushers
\* and array extenders, the array on top holds what it held when it was
\* pushed, followed by the pushed values and the elements of the extending
\* sequences, in the order of the calls.
C7_ArrayExtendPush ==
  \A k \in 1..Len(cstack) :
    LET f == cstack[k]
    IN (/\ f.fn = "parseNode"
        /\ \A i \in 1..Len(Present(f)) :
             Present(f)[i].comb \in {"makeArrayPusher", "makeArrayExtender"}
        /\ heap[f.object.v].isArray)
       => /\ objectStack[Slot(f)] = f.object
          /\ heap[f.object.v].elems = f.elems0 \o Appended(Present(f))

\* the root's children are done: the array that held 0 was extended by two
\* sequences of two or more elements and pushed to once
C7_Witness ==
  /\ Running
  /\ Len(cstack) = 2 /\ TopFrame.fn = "parseNode" /\ TopFrame.n = 0
  /\ TopFrame.tbl = "TArr"
  /\ TopFrame.elems0 = <<Num(0)>>
  /\ Len(Present(TopFrame)) = 3
  /\ Present(TopFrame)[1].comb = "makeArrayExtender"
  /\ Len(Present(TopFrame)[1].elems) >= 2
  /\ Present(TopFrame)[2].comb = "makeArrayExtender"
  /\ Len(Present(TopFrame)[2].elems) >= 2
  /\ Present(TopFrame)[3].comb = "makeArrayPusher"
  /\ Len(heap[TopFrame.object.v].elems) >= 6

\* a parser is about to finish: its reader's value is known
AtParserEnd ==
  /\ Running
  /\ TopFrame.fn = "parser"
  /\ \/ TopFrame.pc = "apply"
     \/ TopFrame.pc = "read" /\ TopFrame.parser.reader # "readNested"

\* the value the reader of the parser on top yields (a list reader's list
\* is a new array, the next reference of the heap)
ReaderValue ==
  IF TopFrame.pc = "apply" THEN ret
  ELSE IF TopFrame.parser.reader = "readScalar" THEN nodes[TopFrame.node].val
  ELSE IF nodes[TopFrame.node].childNodes = <<>> THEN Undef
  ELSE Ref(Len(heap) + 1)

\* every object of the heap except those in `but` is as it was
SameExcept(but) == \A r \in (1..Len(heap)) \ but : heap'[r] = heap[r]

\* the one accumulation of the combinator of the parser on top, on the top
\* of the stack, with value v
OneAccumulation(v) ==
  LET comb == TopFrame.parser.comb
      top == Top(objectStack)
      key == IF TopFrame.parser.property # "" THEN TopFrame.parser.property
             ELSE nodes[TopFrame.node].localName
  IN /\ Len(objectStack') = Len(objectStack)
     /\ Front(objectStack') = Front(objectStack)
     /\ comb = "makeReplacer" =>
          Top(objectStack') = v /\ SameExcept({})
     /\ comb = "makeArrayPusher" =>
          /\ objectStack' = objectStack
          /\ heap'[top.v] = [heap[top.v] EXCEPT !.elems = Append(@, v)]
          /\ SameExcept({top.v})
     /\ comb = "makeArrayExtender" =>
          /\ objectStack' = objectStack
          /\ heap'[top.v] = [heap[top.v] EXCEPT !.elems = @ \o heap'[v.v].elems]
          /\ SameExcept({top.v})
     /\ comb = "makeObjectPropertySetter" =>
          /\ objectStack' = objectStack
          /\ heap'[top.v] = [heap[top.v] EXCEPT !.props[key] = v]
          /\ SameExcept({top.v})
     /\ comb = "makeObjectPropertyPusher" =>
          /\ objectStack' = objectStack
          /\ LET old == heap[top.v].props[key]
                 new == heap'[top.v].props[key]
             IN IF old = Absent
                  THEN /\ new = Ref(Len(heap) + 1)
                       /\ heap'[new.v] = NewArray(<<v>>)
                       /\ heap'[top.v] = [heap[top.v] EXCEPT !.props[key] = new]
                       /\ SameExcept({top.v})
                  ELSE /\ heap'[top.v] = IF old = top
                                           THEN [heap[top.v] EXCEPT
                                                   !.elems = Append(@, v)]
                                           ELSE heap[top.v]
                       /\ heap'[old.v] = [heap[old.v] EXCEPT
                                            !.elems = Append(@, v)]
                       /\ SameExcept({old.v})

\* C8: a parser made by any of the five read combinators whose reader
\* yields undefined leaves the object stack and every object as they were
\* and throws nothing; one whose reader yields a value applies, unless it
\* throws, exactly its one accumulation to the top of the stack.
C8_SkipOnAbsent ==
  [][AtParserEnd =>
       IF ReaderValue = Undef
         THEN objectStack' = objectStack /\ heap' = heap /\ status' = "running"
         ELSE status' = "thrown" \/ OneAccumulation(ReaderValue)]_vars

\* at one level a parser whose reader yielded undefined and a parser whose
\* reader yielded a value have both run
C8_Witness ==
  /\ Running
  /\ TopFrame.fn = "parseNode"
  /\ \E i, j \in 1..Len(TopFrame.applied) :
       /\ TopFrame.applied[i].value = Undef
       /\ TopFrame.applied[j].value # Undef
       /\ TopFrame.applied[i].comb = TopFrame.applied[j].comb

\* the last value a replacer wrote at the level of the returning
\* pushParseAndPop, or its seed when none wrote
ExpectedReturn(f) ==
  LET reps == SelectSeq(f.applied,
                LAMBDA e : e.comb = "makeReplacer" /\ e.value # Undef)
  IN IF f.fn = "pushParseAndPop" /\ reps # <<>>
       THEN reps[Len(reps)].value
       ELSE f.object

\* C9: pushParseAndPop returns what is at the position it pushed to when
\* parseNode has finished: the seed object itself when no replacer at that
\* level got a value, else the value the last such replacer got; a replacer
\* writes the top slot only.  pushSerializeAndPop returns the object it
\* pushed.
C9_ReturnsPushedSlot ==
  [][/\ AtReturn =>
          /\ ret' = objectStack[Len(TopFrame.stack0) + 1]
          /\ ret' = ExpectedReturn(TopFrame)
     /\ (AtParserEnd /\ TopFrame.parser.comb = "makeReplacer"
         /\ status' = "running") =>
          /\ Front(objectStack') = Front(objectStack)
          /\ heap' = heap]_vars

\* the top-level pushParseAndPop has returned a number a replacer wrote in
\* place of the seed, in a run with a nested pushParseAndPop on a seed of
\* its own
C9_Witness ==
  /\ status = "done"
  /\ cfg.mode = "parse" /\ cfg.tbl = "TRep"
  /\ ret.t = "num"
  /\ Len(heap) >= cfg.depth + 2

\* the element children of node nd, in document order
ElementChildren(nd) ==
  SelectSeq(nodes[nd].childNodes, LAMBDA c : nodes[c].nodeType = "element")

HasParser(tbl, c) ==
  /\ nodes[c].namespaceURI \in DOMAIN parsersNSOf(tbl)
  /\ nodes[c].localName \in DOMAIN parsersNSOf(tbl)[nodes[c].namespaceURI]

\* C10: what one parseNode call has looked up so far is a prefix of the
\* element children of its node in document order (all of them when it
\* returns), the child it stands at is the next one, and the parsers it has
\* called are, in that order, those of the looked-up children the table has
\* an entry for; so no text child and no deeper descendant is handed to a
\* parser by that call.
C10_DispatchOrder ==
  \A k \in 1..Len(cstack) :
    LET f == cstack[k]
        es == ElementChildren(f.node)
        m == Len(f.considered)
    IN /\ f.fn = "parseNode" =>
            /\ m <= Len(es)
            /\ f.considered = SubSeq(es, 1, m)
            /\ f.invoked = SelectSeq(f.considered, LAMBDA c : HasParser(f.tbl, c))
            /\ f.pc = "loop" => f.n = IF m < Len(es) THEN es[m + 1] ELSE 0
            /\ f.pc = "called" =>
                 /\ f.n = es[m]
                 /\ cstack[k + 1].fn = "parser"
                 /\ cstack[k + 1].node = f.n
                 /\ cstack[k + 1].parser =
                      parsersNSOf(f.tbl)[nodes[f.n].namespaceURI][nodes[f.n].localName]
       /\ f.fn = "pushParseAndPop" /\ f.pc = "pop" /\ k = Len(cstack) =>
            /\ f.considered = es
            /\ f.invoked = SelectSeq(es, LAMBDA c : HasParser(f.tbl, c))

\* parseNode has returned from a node with a text child, an element with
\* children of its own and an element without parser: two looked up, one
\* parser called
C10_Witness ==
  /\ AtReturn
  /\ TopFrame.fn = "pushParseAndPop"
  /\ Len(cstack) = 1
  /\ Len(nodes[1].childNodes) = 3
  /\ Len(TopFrame.considered) = 2
  /\ Len(TopFrame.invoked) = 1
  /\ nodes[TopFrame.invoked[1]].childNodes # <<>>

\* C11: at a level where the parsers that got a value were all property
\* setters, the record on top holds under each key the last value read for
\* that key (explicit property, else the child's local name) in document
\* order, whatever undefined reader values came before or after it, and
\* nothing under a key no value was read for.
C11_PropertySetLastWins ==
  \A k \in 1..Len(cstack) :
    LET f == cstack[k]
    IN (/\ f.fn = "parseNode"
        /\ \A i \in 1..Len(Present(f)) :
             Present(f)[i].comb = "makeObjectPropertySetter")
       => /\ objectStack[Slot(f)] = f.object
          /\ \A key \in Keys :
               LET vs == ValuesFor(Present(f), key)
                   held == heap[f.object.v].props[key]
               IN IF vs = <<>> THEN held = Absent
                  ELSE held = vs[Len(vs)]

\* the root's children are done: two values were read for "a" (one by the
\* default key, one by an explicit property), then an a child gave
\* undefined
C11_Witness ==
  /\ Running
  /\ Len(cstack) = 2 /\ TopFrame.fn = "parseNode" /\ TopFrame.n = 0
  /\ TopFrame.tbl = "TSet"
  /\ Len(TopFrame.applied) = 3
  /\ Len(ValuesFor(Present(TopFrame), "a")) = 2
  /\ TopFrame.applied[3].value = Undef
  /\ nodes[TopFrame.applied[3].node].localName = "a"
  /\ \E i \in 1..2 : TopFrame.applied[i].property = "a"

\* the serialize call on top was made by an array serializer and stands at
\* a value of the array
InArraySerialize ==
  /\ InSerializeLoop
  /\ Len(cstack) >= 2
  /\ cstack[Len(cstack) - 1].fn = "serializer"
  /\ cstack[Len(cstack) - 1].serializer.kind = "makeArraySerializer"

\* an array serializer is about to return
AtArrayReturn ==
  /\ Running
  /\ TopFrame.fn = "serializer" /\ TopFrame.pc = "return"

\* the calls of the wrapped writer among the calls of a serialize
WriterCalls(calls) == SelectSeq(calls, LAMBDA e : e.op = "serializer")

\* what a step of an array serializer has to be: at a value of the array,
\* a call of the wrapped writer with a new element and that value; at its
\* return, n calls made, in the order of the array, with n distinct
\* elements of one namespace and local name, each holding its own value
ArraySerializerActs ==
     /\ InArraySerialize =>
          LET f == TopFrame
              g == cstack[Len(cstack) - 1]
          IN /\ status' = "running"
             /\ Len(nodes') = Len(nodes) + 1
             /\ Len(cstack') = Len(cstack) + 1
             /\ cstack'[Len(cstack')].fn = "serializer"
             /\ cstack'[Len(cstack')].serializer =
                  S("makeChildAppender", g.serializer.writer)
             /\ cstack'[Len(cstack')].node = Len(nodes) + 1
             /\ cstack'[Len(cstack')].value = f.values[f.i + 1]
     /\ AtArrayReturn =>
          LET ws == WriterCalls(TopFrame.calls)
              vs == heap[TopFrame.value.v].elems
          IN /\ Len(ws) = Len(vs)
             /\ \A i \in 1..Len(ws) :
                  /\ ws[i].i = i - 1
                  /\ ws[i].value = vs[i]
                  /\ nodes[ws[i].node].namespaceURI = nodes[ws[1].node].namespaceURI
                  /\ nodes[ws[i].node].localName = nodes[ws[1].node].localName
                  /\ nodes[ws[i].node].val = vs[i]
                  /\ \A j \in 1..Len(ws) : ws[i].node = ws[j].node => i = j

\* C12: a serializer made by makeArraySerializer, called with an array of n
\* values, calls the wrapped writer for each value in turn with a newly
\* created element and that value, and has called it exactly n times, in the
\* order of the array, with n distinct elements of one namespace and local
\* name, when it returns.
C12_ArraySerializerCalls == [][ArraySerializerActs]_vars

\* the root element the running top-level call writes under: the last one
\* made
CallRoot ==
  CHOOSE r \in 1..Len(nodes) :
    /\ nodes[r].localName = "root"
    /\ \A q \in (r + 1)..Len(nodes) : nodes[q].localName # "root"

\* what is under node r: namespace, local name and content of each child
Written(r) ==
  [i \in 1..Len(nodes[r].childNodes) |->
     LET k == nodes[nodes[r].childNodes[i]]
     IN <<k.namespaceURI, k.localName, k.val>>]

\* how the top-level call c ends and what it writes when the array
\* serializer it reaches has not been called before
AloneOutcome(c) ==
  LET trigger == [namespaceURI |-> IF c.factory.namespaceURI # ""
                                     THEN c.factory.namespaceURI
                                     ELSE c.parentNs,
                  localName |-> c.key]
      cl == arraySerializerAssign(Unassigned, trigger)
      name == closureNodeFactory(cl).nodeName
      found == HasSerializer(
                 closureSerializersNS(cl, S("makeChildAppender", "writeText")),
                 c.parentNs, name)
  IN IF c.n = 0 THEN [status |-> "done", written |-> <<>>]
     ELSE IF found
       THEN [status |-> "done",
             written |-> [i \in 1..c.n |-> <<c.parentNs, name, Num(i)>>]]
       ELSE [status |-> "thrown", written |-> <<>>]

\* C13: top-level calls that share a serializer table but neither object
\* stack nor output node do not affect each other: however a call ends
\* (returned or thrown) and whatever it has written under its root is what
\* the same call does when no call was made before it.
C13_CallsIndependent ==
  (cfg.mode = "array" /\ status \in {"done", "thrown"}) =>
    [status |-> status, written |-> Written(CallRoot)]
      = AloneOutcome(cfg.calls[call])

\* an array serializer is about to run
AtArrayCall ==
  /\ Running
  /\ TopFrame.fn = "serializer" /\ TopFrame.pc = "write"
  /\ TopFrame.serializer.kind = "makeArraySerializer"

\* C15: at every call of a serializer made by makeArraySerializer, the first
\* or a later one, under a parent of any namespace, the table it hands to
\* serialize has one entry, under the namespace and local name of the node
\* it was called with; every element its node factory then makes has that
\* node's namespace and local name, and the lookup in serialize finds the
\* wrapped writer.
C15_TableKeyedByTriggeringNode ==
  [][/\ AtArrayCall =>
          LET trigger == nodes[TopFrame.node]
              tbl == cstack'[Len(cstack')].stbl
          IN /\ DOMAIN tbl = {trigger.namespaceURI}
             /\ DOMAIN tbl[trigger.namespaceURI] = {trigger.localName}
     /\ InArraySerialize =>
          LET trigger == nodes[cstack[Len(cstack) - 1].node]
              made == nodes'[Len(nodes) + 1]
          IN /\ Len(nodes') = Len(nodes) + 1
             /\ made.namespaceURI = trigger.namespaceURI
             /\ made.localName = trigger.localName
             /\ status' = "running"]_vars

\* the injections of 1..k into itself
Perms(k) == {p \in [1..k -> 1..k] : \A i, j \in 1..k : p[i] = p[j] => i = j}

RECURSIVE SameShape(_, _)
\* the elements n and m have the same namespace and local name and, up to
\* the order of siblings, element children of the same shape
SameShape(n, m) ==
  LET en == ElementChildren(n)
      em == ElementChildren(m)
  IN /\ nodes[n].namespaceURI = nodes[m].namespaceURI
     /\ nodes[n].localName = nodes[m].localName
     /\ Len(en) = Len(em)
     /\ \E p \in Perms(Len(en)) :
          \A i \in 1..Len(en) : SameShape(en[i], em[p[i]])

AtAppend ==
  /\ Running
  /\ TopFrame.fn = "serializer"
  /\ TopFrame.serializer.kind = "makeChildAppender"
  /\ \/ TopFrame.pc = "append"
     \/ TopFrame.pc = "write" /\ TopFrame.serializer.writer = "writeText"

IsChild(nd) ==
  \E q \in 1..Len(nodes) : \E i \in 1..Len(nodes[q].childNodes) :
    nodes[q].childNodes[i] = nd

\* C16: a serializer made by makeChildAppender runs its node writer first
\* (while the writer runs, the node is a child of nothing) and then appends
\* the node, once, as the last child of the node held by the frame on top
\* of the stack, and changes the children of no other node; so when
\* pushSerializeAndPop is about to return from values written by child
\* appenders, the children of its context's node are the nodes made for the
\* values that have one, in the order of the values.
C16_ChildAppender ==
  [][/\ \A k \in 1..Len(cstack) :
          (cstack[k].fn = "serializer"
           /\ cstack[k].serializer.kind = "makeChildAppender")
            => ~IsChild(cstack[k].node) /\ nodes[cstack[k].node].parentNode = 0
     /\ AtAppend =>
          \/ status' = "thrown"
          \/ LET parent == GetProp(Top(objectStack), "node", heap).v
             IN /\ Len(nodes') = Len(nodes)
                /\ nodes'[parent].childNodes =
                     Append(nodes[parent].childNodes, TopFrame.node)
                /\ nodes'[TopFrame.node].parentNode = parent
                /\ \A q \in 1..Len(nodes) :
                     q # parent => nodes'[q].childNodes = nodes[q].childNodes
     /\ (AtReturn /\ TopFrame.fn = "pushSerializeAndPop"
         /\ GetProp(Top(objectStack), "node", heap).t = "node") =>
          LET parent == GetProp(Top(objectStack), "node", heap).v
              ws == WriterCalls(TopFrame.calls)
          IN nodes[parent].childNodes = [i \in 1..Len(ws) |-> ws[i].node]]_vars

\* a record with a record in it has been written: the outer element has two
\* or more children, one of them with children of its own, and is itself
\* the child of the document
C16_Witness ==
  /\ cfg.mode = "record"
  /\ status = "done"
  /\ nodes[1].childNodes = <<2>>
  /\ Len(nodes[2].childNodes) >= 2
  /\ \E i \in 1..Len(nodes[2].childNodes) :
       Len(nodes[nodes[2].childNodes[i]].childNodes) >= 2

\* serialize is about to call a node factory made by makeSimpleNodeFactory
AtSimpleFactoryCall ==
  /\ InSerializeLoop
  /\ At(TopFrame.values, TopFrame.i) # Undef
  /\ TopFrame.factory.kind = "makeSimpleNodeFactory"

\* C17: the node a factory made by makeSimpleNodeFactory creates is named
\* by the fixed name when one was given, whatever the name given per call,
\* and by the name given per call otherwise (its conversion to a string when
\* there is none); its namespace is the fixed URI when one was given and
\* otherwise that of the node held by the frame on top of the stack at the
\* call.  The factory changes neither the stack nor any object nor any node
\* there was, the parent included.
C17_SimpleNodeFactory ==
  [][AtSimpleFactoryCall =>
       LET f == TopFrame
           hint == IF f.hasKeys THEN f.keys[f.i + 1] ELSE ""
           made == nodes'[Len(nodes) + 1]
       IN /\ objectStack' = objectStack
          /\ heap' = heap
          /\ \A q \in 1..Len(nodes) : nodes'[q] = nodes[q]
          /\ IF f.factory.namespaceURI = ""
                /\ GetProp(Top(objectStack), "node", heap).t # "node"
               THEN status' = "thrown" /\ nodes' = nodes
               ELSE /\ Len(nodes') = Len(nodes) + 1
                    /\ made.nodeType = "element"
                    /\ made.parentNode = 0 /\ made.childNodes = <<>>
                    /\ made.localName =
                         IF f.factory.nodeName # "" THEN f.factory.nodeName
                         ELSE IF hint # "" THEN hint ELSE "undefined"
                    /\ made.namespaceURI =
                         IF f.factory.namespaceURI # ""
                           THEN f.factory.namespaceURI
                           ELSE nodes[GetProp(Top(objectStack), "node", heap).v]
                                  .namespaceURI]_vars

\* a factory with the fixed name a, called with the name c, has made the
\* element a that is now under the root
C17_Witness ==
  /\ cfg.mode = "direct"
  /\ status = "done"
  /\ cfg.factory = NF("makeSimpleNodeFactory", "a", "")
  /\ cfg.hasKeys /\ Len(cfg.keys) >= 1 /\ cfg.keys[1] = "c"
  /\ Len(nodes[1].childNodes) >= 1
  /\ nodes[nodes[1].childNodes[1]].localName = "a"
  /\ nodes[nodes[1].childNodes[1]].namespaceURI = "ns1"

\* the object stack the caller of the running top-level call handed in
CallerStack ==
  IF cfg.mode = "parse" /\ cfg.depth = 1 THEN <<Ref(1)>>
  ELSE IF cfg.mode = "record" THEN <<Ref(1)>>
  ELSE <<>>

\* C18: however a top-level pushParseAndPop or pushSerializeAndPop ends, by
\* returning or by an exception of a handler, a node factory or a table
\* lookup, the frame it pushed and the frames pushed by the calls nested in
\* it are off the stack: the caller finds the stack it handed in, frame by
\* frame.
C18_PopOnEveryExit ==
  status \in {"done", "thrown"} => objectStack = CallerStack

RECURSIVE Depth(_)
\* the nesting depth of a node: 0 for the root, 1 for its children
Depth(n) == IF nodes[n].parentNode = 0 THEN 0 ELSE 1 + Depth(nodes[n].parentNode)

\* C19: in a parse that pushParseAndPop starts on an empty stack and whose
\* readers of nested elements go through pushParseAndPop, the stack is not
\* empty while parseNode or a parser runs, its depth whenever a parser runs
\* (when it is called, and again when its nested reader has returned) is the
\* nesting depth of the element the parser was called for, 1 for the
\* children of the root, and pushParseAndPop never pops an empty stack.
C19_DepthTracksNesting ==
  (cfg.mode = "parse" /\ cfg.depth = 0 /\ Running) =>
    /\ TopFrame.fn \in {"parseNode", "parser"} => objectStack # <<>>
    /\ TopFrame.fn = "parser" => Len(objectStack) = Depth(TopFrame.node)
    /\ TopFrame.fn = "parseNode" => Len(objectStack) = Depth(TopFrame.node) + 1
    /\ (TopFrame.fn = "pushParseAndPop" /\ TopFrame.pc = "pop") =>
         /\ objectStack # <<>>
         /\ Len(objectStack) = Depth(TopFrame.node) + 1

\* on a stack that was empty at the start, a parser runs for an element
\* three levels below the root, and three frames are on the stack
C19_Witness ==
  /\ cfg.mode = "parse" /\ cfg.depth = 0
  /\ Running
  /\ TopFrame.fn = "parser" /\ TopFrame.pc = "read"
  /\ Depth(TopFrame.node) = 3
  /\ Len(objectStack) = 3

\* C20: a step of the engine or of a parser made by a read combinator
\* changes the depth of the stack only by the one push and the one pop of
\* pushParseAndPop and pushSerializeAndPop; any other step leaves every slot
\* below the top as it is; no step changes an object held by a slot below
\* the top (unless the top holds that same object); and while a level runs,
\* the slots that were on the stack when it was entered are on it unchanged.
C20_TopFrameOnly ==
  [][/\ Len(objectStack') # Len(objectStack) =>
          /\ Running
          /\ TopFrame.fn \in {"pushParseAndPop", "pushSerializeAndPop"}
          /\ \/ TopFrame.pc = "push"
                /\ objectStack' = Append(objectStack, TopFrame.object)
             \/ TopFrame.pc = "pop"
                /\ objectStack' = Front(objectStack)
     /\ (Len(objectStack') = Len(objectStack) /\ objectStack # <<>>) =>
          Front(objectStack') = Front(objectStack)
     /\ \A p \in 1..(Len(objectStack) - 1) :
          (objectStack[p].t = "ref" /\ objectStack[p] # Top(objectStack)) =>
            heap'[objectStack[p].v] = heap[objectStack[p].v]
     /\ \A k \in 1..Len(cstack) :
          /\ Len(cstack[k].stack0) <= Len(objectStack)
          /\ SubSeq(objectStack, 1, Len(cstack[k].stack0)) = cstack[k].stack0]_vars

\* at a nested level of a parse a parser has accumulated a value on the top
\* of the stack, two frames above the caller's
C20_Witness ==
  /\ cfg.mode = "parse"
  /\ Running
  /\ TopFrame.fn = "parseNode"
  /\ Len(objectStack) = cfg.depth + 2
  /\ Len(Present(TopFrame)) >= 1
  /\ objectStack[cfg.depth + 1] # Top(objectStack)

====
